---- MODULE Spec2Model ----
(***************************************************************************)
(* Model of lana_telegram_bot.py: the SQLite-backed storage helpers with   *)
(* their one-shot Durable -> Ephemeral fallback (_db_try), the quota and   *)
(* history logic, the reply generation, and the two session loops          *)
(* (run_local_session and the Telegram handlers).                          *)
(*                                                                         *)
(* Text is modelled as a sequence of tokens, so that string concatenation  *)
(* is \o and "x in reply" is a subsequence test.                           *)
(*                                                                         *)
(* A database is a record [tables, users, convo]:                          *)
(*   tables : whether CREATE TABLE has been committed in it,               *)
(*   users  : user_id -> NoRow or [messages_today, last_reset]             *)
(*            (the username column is written once and never read),        *)
(*   convo  : the rows of table convo in increasing id order; ids come     *)
(*            from AUTOINCREMENT, so insertion order is id order.          *)
(***************************************************************************)
EXTENDS Integers, Sequences, FiniteSets, TLC

\* ------------------------------------------------------------------ bounds
\* The two configuration values (environment, defaults 15 and 16) take small
\* values; the others bound the days, appends, counters, rows and inputs.
FREE_MESSAGES_PER_DAY == 2
HISTORY_TURNS == 1
MaxDay == 1
MaxLog == 4
MaxCount == 2
MaxRows == 2
MaxEvents == 4

Users == {1, 2}
Days == 0..MaxDay
Texts == {<<"a">>, <<"b">>}
Roles == {"user", "assistant", "system"}

NoRow == [absent |-> TRUE]
EmptyDb == [tables |-> FALSE, users |-> [u \in Users |-> NoRow], convo |-> <<>>]

VARIABLES
    DB_URI,     \* FALSE: Durable (file DB_PATH), TRUE: Ephemeral (shared memory DSN)
    today,      \* date.today()
    fileDb,     \* committed content of the file database
    memDb,      \* content of the named in-memory database
    txn,        \* an open add_msg transaction (insert done, not yet committed)
    lastCall,   \* what the last _db_try call did
    log,        \* per user, every turn appended since the last clear
    eq,         \* results of the last operation on a Durable and an Ephemeral store
    pre,        \* the file database and the date before the last call, and whether
                \* the call came straight after a clear_history of the same user
    callers,    \* two concurrent get_user calls for one user id, statement by statement
    sess,       \* per user, the handler of that user's current event
    solo,       \* per user, the database the user's own calls alone produce
    msgList,    \* local variable messages of generate_reply
    steps,      \* the steps the current iteration has taken, in order
    transport,  \* "local" or "telegram"
    provider,   \* "unavailable" (no client/key) or "configured"
    pc,         \* position of the session loop
    cur,        \* the event being handled
    used,       \* local variable used of the handler
    reply,      \* local variable reply of the handler
    out,        \* what the last handled event sent to the user
    served,     \* per user and day of the quota check, replies generated
    cycles,     \* per user, message+reply cycles completed within today
    userAdds,   \* user turns committed during the current iteration
    events      \* inputs the loop has taken so far

storeVars == <<DB_URI, today, fileDb, memDb, txn, lastCall, log, eq, pre, callers, sess, solo>>
loopVars == <<msgList, steps, transport, provider, pc, cur, used, reply, out, served, cycles, userAdds, events>>
vars == <<DB_URI, today, fileDb, memDb, txn, lastCall, log, eq, pre, callers, sess, solo,
          msgList, steps, transport, provider, pc, cur, used, reply, out, served, cycles, userAdds, events>>

\* ------------------------------------------------------- storage operations
\* Each operation is the inner function handed to _db_try, as a function of
\* the database its connection sees; it yields [ok, db, ret].

Ok(d, r) == [ok |-> TRUE, db |-> d, ret |-> r]
Raise(d) == [ok |-> FALSE, db |-> d, ret |-> <<>>]

\* init_db._init: CREATE TABLE IF NOT EXISTS users / convo
InitOp(d) == Ok([d EXCEPT !.tables = TRUE], <<>>)

\* a WHERE clause that matches the rows of every user
RowsOfAny(convo, uid) == 1..Len(convo)

\* get_user._get without the comparison of last_reset with today
GetStale(d, uid, day) ==
    IF ~d.tables THEN Raise(d)
    ELSE LET row == d.users[uid] IN
         IF row = NoRow
         THEN Ok([d EXCEPT !.users[uid] = [messages_today |-> 0, last_reset |-> day]],
                 <<uid, 0, day>>)
         ELSE Ok(d, <<uid, row.messages_today, row.last_reset>>)

\* get_user._get
GetOp(d, uid, day) ==
    IF ~d.tables THEN Raise(d)
    ELSE LET row == d.users[uid] IN
         IF row = NoRow
         THEN Ok([d EXCEPT !.users[uid] = [messages_today |-> 0, last_reset |-> day]],
                 <<uid, 0, day>>)
         ELSE IF row.last_reset # day
         THEN Ok([d EXCEPT !.users[uid] = [messages_today |-> 0, last_reset |-> day]],
                 <<uid, 0, day>>)
         ELSE Ok(d, <<uid, row.messages_today, row.last_reset>>)

\* the UPDATE matching no row
IncLost(d, uid) ==
    IF ~d.tables THEN Raise(d) ELSE Ok(d, <<>>)

\* an increment that inserts the row when the UPDATE matches none
IncUpsert(d, uid) ==
    IF ~d.tables THEN Raise(d)
    ELSE IF d.users[uid] = NoRow
    THEN Ok([d EXCEPT !.users[uid] = [messages_today |-> 1, last_reset |-> 0]], <<>>)
    ELSE Ok([d EXCEPT !.users[uid].messages_today = @ + 1], <<>>)

\* inc_user_counter._inc
IncOp(d, uid) ==
    IF ~d.tables THEN Raise(d)
    ELSE IF d.users[uid] = NoRow THEN Ok(d, <<>>)
    ELSE Ok([d EXCEPT !.users[uid].messages_today = @ + 1], <<>>)

\* positions (ids) of the rows of uid, ascending
RowsOf(convo, uid) == {i \in 1..Len(convo) : convo[i].user_id = uid}

\* the subquery ordered ASC instead of DESC: the oldest n rows are kept
BeyondOffsetAsc(convo, uid, n) ==
    {i \in RowsOf(convo, uid) : Cardinality({j \in RowsOf(convo, uid) : j < i}) >= n}

\* SELECT id FROM convo WHERE user_id = ? ORDER BY id DESC LIMIT -1 OFFSET n
BeyondOffset(convo, uid, n) ==
    {i \in RowsOf(convo, uid) : Cardinality({j \in RowsOf(convo, uid) : j > i}) >= n}

RECURSIVE DeleteRows(_, _)
DeleteRows(convo, ids) ==
    IF convo = <<>> THEN <<>>
    ELSE LET front == DeleteRows(SubSeq(convo, 1, Len(convo) - 1), ids) IN
         IF Len(convo) \in ids THEN front ELSE Append(front, convo[Len(convo)])

\* add_msg._add, first statement: INSERT INTO convo
InsertOp(d, uid, role, content) ==
    [d EXCEPT !.convo = Append(@, [user_id |-> uid, role |-> role, content |-> content])]

\* the DELETE with an offset one too large
TrimOffByOne(d, uid) ==
    [d EXCEPT !.convo = DeleteRows(@, BeyondOffset(@, uid, HISTORY_TURNS * 2 + 1))]

\* add_msg._add, second statement: DELETE ... beyond the newest 2*HISTORY_TURNS
TrimOp(d, uid) ==
    [d EXCEPT !.convo = DeleteRows(@, BeyondOffset(@, uid, HISTORY_TURNS * 2))]

\* add_msg._add
AddOp(d, uid, role, content) ==
    IF ~d.tables THEN Raise(d)
    ELSE Ok(TrimOp(InsertOp(d, uid, role, content), uid), <<>>)

RECURSIVE SelectHistory(_, _)
SelectHistory(convo, uid) ==
    IF convo = <<>> THEN <<>>
    ELSE LET front == SelectHistory(SubSeq(convo, 1, Len(convo) - 1), uid)
             r == convo[Len(convo)] IN
         IF r.user_id = uid THEN Append(front, <<r.role, r.content>>) ELSE front

\* a read that deletes the rows it returns
HistPop(d, uid) ==
    IF ~d.tables THEN Raise(d)
    ELSE Ok([d EXCEPT !.convo = DeleteRows(@, RowsOf(@, uid))], SelectHistory(d.convo, uid))

\* get_history._hist
HistOp(d, uid) ==
    IF ~d.tables THEN Raise(d) ELSE Ok(d, SelectHistory(d.convo, uid))

\* the DELETE without its WHERE clause
ResetAll(d, uid) ==
    IF ~d.tables THEN Raise(d) ELSE Ok([d EXCEPT !.convo = <<>>], <<>>)

\* a reset that also zeroes the user's counter
ResetCounter(d, uid) ==
    IF ~d.tables THEN Raise(d)
    ELSE Ok([d EXCEPT !.convo = DeleteRows(@, RowsOf(@, uid)),
                      !.users[uid] = IF @ = NoRow THEN @
                                     ELSE [@ EXCEPT !.messages_today = 0]], <<>>)

\* _do_reset: DELETE FROM convo WHERE user_id = ?
ResetOp(d, uid) ==
    IF ~d.tables THEN Raise(d)
    ELSE Ok([d EXCEPT !.convo = DeleteRows(@, RowsOf(@, uid))], <<>>)

\* con.close() of the only open connection: a file database keeps what was
\* committed, the database named by "file:lana_memdb?mode=memory&cache=shared"
\* is deleted when its last connection closes.
CloseConn(uri, d) == IF uri THEN EmptyDb ELSE d

\* the inner function of a storage helper with its arguments bound, as _db_try
\* receives it
InitCall == [name |-> "init_db", uid |-> 0, role |-> "", content |-> <<>>, day |-> 0]
GetUserCall(uid, day) ==
    [name |-> "get_user", uid |-> uid, role |-> "", content |-> <<>>, day |-> day]
IncCall(uid) ==
    [name |-> "inc_user_counter", uid |-> uid, role |-> "", content |-> <<>>, day |-> 0]
AddCall(uid, role, content) ==
    [name |-> "add_msg", uid |-> uid, role |-> role, content |-> content, day |-> 0]
HistCall(uid) ==
    [name |-> "get_history", uid |-> uid, role |-> "", content |-> <<>>, day |-> 0]
ResetCall(uid) ==
    [name |-> "clear_history", uid |-> uid, role |-> "", content |-> <<>>, day |-> 0]

\* fn(): the body of the inner function on the database its connection opens
Apply(op, d) ==
    CASE op.name = "init_db" -> InitOp(d)
      [] op.name = "get_user" -> GetOp(d, op.uid, op.day)
      [] op.name = "inc_user_counter" -> IncOp(d, op.uid)
      [] op.name = "add_msg" -> AddOp(d, op.uid, op.role, op.content)
      [] op.name = "get_history" -> HistOp(d, op.uid)
      [] op.name = "clear_history" -> ResetOp(d, op.uid)

\* db() connecting to DB_PATH whatever the mode
ConnectFile(uri) == FALSE

\* db(): sqlite3.connect(DB_DSN, uri=DB_URI); TRUE: the in-memory database
Connect(uri) == uri

\* one invocation fn() of an operation on the backend selected by uri;
\* io: the invocation hits an I/O-class error (OSError / OperationalError)
\* before it commits.
Invoke(op, io, uri, fdb, mdb) ==
    LET c == Connect(uri)
        d == IF c THEN mdb ELSE fdb
        r == IF io THEN Raise(d) ELSE Apply(op, d) IN
    IF r.ok
    THEN [ok |-> TRUE, ret |-> r.ret, backend |-> c,
          fdb |-> IF c THEN fdb ELSE CloseConn(FALSE, r.db),
          mdb |-> IF c THEN CloseConn(TRUE, r.db) ELSE mdb]
    ELSE [ok |-> FALSE, ret |-> <<>>, backend |-> c, fdb |-> fdb, mdb |-> mdb]

\* _switch_to_memory_db
SwitchToMemoryDb(uri) == TRUE

\* _db_try: "if not DB_URI", with the mode flag always taking the fallback
FallbackAlways(uri) == TRUE

\* _db_try: "if not DB_URI"
ShouldFallback(uri) == ~uri

\* _db_try, the except branch: the first invocation raised an I/O-class error;
\* io2: the retry hits one too
DbExcept(op, io2, uri, fdb, mdb) ==
    IF ShouldFallback(uri)
    THEN LET u2 == SwitchToMemoryDb(uri)
             r2 == Invoke(op, io2, u2, fdb, mdb) IN
         [raised |-> ~r2.ok, attempts |-> 2, before |-> uri, uri |-> u2,
          backends |-> <<Connect(uri), r2.backend>>, ret |-> r2.ret, fdb |-> r2.fdb, mdb |-> r2.mdb]
    ELSE [raised |-> TRUE, attempts |-> 1, before |-> uri, uri |-> uri,
          backends |-> <<Connect(uri)>>, ret |-> <<>>, fdb |-> fdb, mdb |-> mdb]

\* _db_try; io: the I/O errors injected into the first and second invocation
DbTry(op, io, uri, fdb, mdb) ==
    LET r1 == Invoke(op, io[1], uri, fdb, mdb) IN
    IF r1.ok
    THEN [raised |-> FALSE, attempts |-> 1, before |-> uri, uri |-> uri,
          backends |-> <<r1.backend>>, ret |-> r1.ret, fdb |-> r1.fdb, mdb |-> r1.mdb]
    ELSE DbExcept(op, io[2], uri, fdb, mdb)

\* the I/O errors injected into the first and the second invocation of a call
Faults == {<<FALSE, FALSE>>, <<TRUE, FALSE>>, <<TRUE, TRUE>>}
NoFault == <<FALSE, FALSE>>

Call(op, io, r) ==
    [op |-> op.name, uid |-> op.uid, failed1 |-> (r.attempts = 2 \/ r.raised),
     faults |-> io,
     before |-> r.before, attempts |-> r.attempts, raised |-> r.raised,
     backends |-> r.backends, ret |-> r.ret]

NoCall == [op |-> "none", uid |-> 0, failed1 |-> FALSE, faults |-> <<FALSE, FALSE>>, before |-> FALSE,
           attempts |-> 0, raised |-> FALSE, backends |-> <<>>, ret |-> <<>>]

NoTxn == [open |-> FALSE, uid |-> 0, content |-> <<>>, work |-> EmptyDb, reads |-> 0]
NoEq == [op |-> "none", durable |-> <<>>, ephemeral |-> <<>>, dOk |-> TRUE, eOk |-> TRUE]

NoEvent == [uid |-> 0, text |-> <<>>, checkDay |-> 0, outcome |-> "none"]

NoPre == [db |-> EmptyDb, day |-> 0, cleared |-> FALSE]

\* a get_user call that has not started
NoCaller == [pc |-> "start", row |-> NoRow, ret |-> <<>>]

\* a handler that is not running
NoSess == [pc |-> "idle", used |-> 0, reply |-> <<>>, events |-> 0]

\* the storage helpers before init_db(), no session loop running
StoreInit ==
    /\ DB_URI = FALSE
    /\ today = 0
    /\ fileDb = EmptyDb
    /\ memDb = EmptyDb
    /\ txn = NoTxn
    /\ lastCall = NoCall
    /\ log = [u \in Users |-> <<>>]
    /\ eq = NoEq
    /\ pre = NoPre
    /\ callers = [c \in {1, 2} |-> NoCaller]
    /\ sess = [u \in Users |-> NoSess]
    /\ solo = [u \in Users |-> EmptyDb]
    /\ msgList = <<>>
    /\ steps = <<>>
    /\ transport = "none"
    /\ provider = "unavailable"
    /\ pc = "off"
    /\ cur = NoEvent
    /\ used = 0
    /\ reply = <<>>
    /\ out = "none"
    /\ served = [u \in Users |-> [d \in Days |-> 0]]
    /\ cycles = [u \in Users |-> 0]
    /\ userAdds = 0
    /\ events = 0

\* the effect of a finished _db_try call on the process and its databases
Commit(op, io, r) ==
    /\ DB_URI' = r.uri
    /\ fileDb' = r.fdb
    /\ memDb' = r.mdb
    /\ lastCall' = Call(op, io, r)

\* init_db() has run: it left the tables in the file, or fell back
InitDone == fileDb.tables \/ DB_URI

\* --------------------------------------------------------------- SpecStore
\* The storage operations called directly, in any order, each with an
\* optional injected I/O error on its first and on its second invocation.

\* date.today() moves to the next day
Tick ==
    /\ today < MaxDay
    /\ today' = today + 1

StoreTick ==
    /\ Tick
    /\ UNCHANGED <<DB_URI, fileDb, memDb, txn, lastCall, log, eq, pre, callers, sess, solo>>
    /\ UNCHANGED loopVars

\* init_db()
StoreInitDb ==
    \E io \in Faults :
        LET op == InitCall IN
        /\ Commit(op, io, DbTry(op, io, DB_URI, fileDb, memDb))
        /\ UNCHANGED <<today, txn, log, eq, pre, callers, sess, solo>>
        /\ UNCHANGED loopVars

\* get_user(uid, username)
StoreGetUser ==
    \E uid \in Users, io \in Faults :
        LET op == GetUserCall(uid, today) IN
        /\ InitDone
        /\ Commit(op, io, DbTry(op, io, DB_URI, fileDb, memDb))
        /\ UNCHANGED <<today, txn, log, eq, pre, callers, sess, solo>>
        /\ UNCHANGED loopVars

\* inc_user_counter(uid)
StoreInc ==
    \E uid \in Users, io \in Faults :
        LET op == IncCall(uid) IN
        /\ InitDone
        /\ IF fileDb.users[uid] = NoRow THEN TRUE
           ELSE fileDb.users[uid].messages_today < MaxCount
        /\ Commit(op, io, DbTry(op, io, DB_URI, fileDb, memDb))
        /\ UNCHANGED <<today, txn, log, eq, pre, callers, sess, solo>>
        /\ UNCHANGED loopVars

\* add_msg(uid, "user", content)
StoreAddMsg ==
    \E uid \in Users, io \in Faults :
        LET op == AddCall(uid, "user", <<"a">>) IN
        /\ InitDone
        /\ Len(fileDb.convo) < MaxRows
        /\ Commit(op, io, DbTry(op, io, DB_URI, fileDb, memDb))
        /\ UNCHANGED <<today, txn, log, eq, pre, callers, sess, solo>>
        /\ UNCHANGED loopVars

\* get_history(uid)
StoreGetHistory ==
    \E uid \in Users, io \in Faults :
        LET op == HistCall(uid) IN
        /\ InitDone
        /\ Commit(op, io, DbTry(op, io, DB_URI, fileDb, memDb))
        /\ UNCHANGED <<today, txn, log, eq, pre, callers, sess, solo>>
        /\ UNCHANGED loopVars

\* _db_try(_do_reset)
StoreClear ==
    \E uid \in Users, io \in Faults :
        LET op == ResetCall(uid) IN
        /\ InitDone
        /\ Commit(op, io, DbTry(op, io, DB_URI, fileDb, memDb))
        /\ UNCHANGED <<today, txn, log, eq, pre, callers, sess, solo>>
        /\ UNCHANGED loopVars

StoreNext ==
    \/ StoreTick
    \/ StoreInitDb
    \/ StoreGetUser
    \/ StoreInc
    \/ StoreAddMsg
    \/ StoreGetHistory
    \/ StoreClear

SpecStore == StoreInit /\ [][StoreNext]_vars

\* ---------------------------------------------------------------- SpecHist
\* add_msg taken statement by statement: its connection holds the inserted
\* row in an open transaction until the DELETE has run and con.commit()
\* publishes both; other connections read the committed database meanwhile.
\* The n-th turn appended for a user since the last clear has content <<n>>.

HistInitDb ==
    \E io \in Faults :
        LET op == InitCall IN
        /\ ~txn.open
        /\ Commit(op, io, DbTry(op, io, DB_URI, fileDb, memDb))
        /\ UNCHANGED <<today, txn, log, eq, pre, callers, sess, solo>>
        /\ UNCHANGED loopVars

\* add_msg: db() and the INSERT; an I/O error here goes to _db_try's except
HistInsert ==
    \E uid \in Users, io \in Faults :
        LET content == <<Len(log[uid]) + 1>>
            op == AddCall(uid, "user", content)
            d0 == IF DB_URI THEN memDb ELSE fileDb IN
        /\ InitDone
        /\ ~txn.open
        /\ Len(log[uid]) < MaxLog
        /\ IF io[1] \/ ~d0.tables
           THEN /\ Commit(op, io, DbExcept(op, io[2], DB_URI, fileDb, memDb))
                /\ UNCHANGED txn
           ELSE /\ txn' = [open |-> TRUE, uid |-> uid, content |-> content,
                           work |-> InsertOp(d0, uid, "user", content), reads |-> 0]
                /\ UNCHANGED <<DB_URI, fileDb, memDb, lastCall>>
        /\ UNCHANGED <<today, log, eq, pre, callers, sess, solo>>
        /\ UNCHANGED loopVars

\* add_msg: the DELETE, con.commit() and con.close(); an I/O error here rolls
\* the transaction back and goes to _db_try's except
HistCommit ==
    \E io \in Faults :
        LET uid == txn.uid
            op == AddCall(uid, "user", txn.content)
            r == IF io[1]
                 THEN DbExcept(op, io[2], DB_URI, fileDb, memDb)
                 ELSE [raised |-> FALSE, attempts |-> 1, before |-> FALSE, uri |-> DB_URI,
                       backends |-> <<FALSE>>, ret |-> <<>>,
                       fdb |-> CloseConn(FALSE, TrimOp(txn.work, uid)), mdb |-> memDb] IN
        /\ txn.open
        /\ Commit(op, io, r)
        /\ txn' = NoTxn
        /\ log' = IF r.raised THEN log
                  ELSE [log EXCEPT ![uid] = Append(@, <<"user", txn.content>>)]
        /\ UNCHANGED <<today, eq, pre, callers, sess, solo>>
        /\ UNCHANGED loopVars

\* get_history(uid) through its own connection, at any time
HistRead ==
    \E uid \in Users :
        LET op == HistCall(uid)
            io == <<FALSE, FALSE>> IN
        /\ InitDone
        /\ Commit(op, io, DbTry(op, io, DB_URI, fileDb, memDb))
        /\ txn' = IF txn.open THEN [txn EXCEPT !.reads = 1] ELSE txn
        /\ UNCHANGED <<today, log, eq, pre, callers, sess, solo>>
        /\ UNCHANGED loopVars

\* _db_try(_do_reset)
HistClear ==
    \E uid \in Users :
        LET op == ResetCall(uid)
            io == <<FALSE, FALSE>>
            r == DbTry(op, io, DB_URI, fileDb, memDb) IN
        /\ InitDone
        /\ ~txn.open
        /\ Commit(op, io, r)
        /\ log' = IF r.raised THEN log ELSE [log EXCEPT ![uid] = <<>>]
        /\ UNCHANGED <<today, txn, eq, pre, callers, sess, solo>>
        /\ UNCHANGED loopVars

HistNext ==
    \/ HistInitDb
    \/ HistInsert
    \/ HistCommit
    \/ HistRead
    \/ HistClear

SpecHist == StoreInit /\ [][HistNext]_vars

Cap == HISTORY_TURNS * 2

\* C3: what a read can observe never exceeds the cap: the committed rows of
\* every user number at most 2*HISTORY_TURNS in every state, also while an
\* add_msg transaction is open between its INSERT and its DELETE, and every
\* get_history result has at most 2*HISTORY_TURNS turns.
HistoryCapObserved ==
    /\ \A u \in Users :
        /\ Len(SelectHistory(fileDb.convo, u)) <= Cap
        /\ Len(SelectHistory(memDb.convo, u)) <= Cap
    /\ (lastCall.op = "get_history" /\ ~lastCall.raised) => Len(lastCall.ret) <= Cap

\* C3 witness: a read was served while an add_msg transaction held more than
\* the cap, and it returned exactly the cap
ReadInsideWindow ==
    /\ txn.open
    /\ txn.reads = 1
    /\ Len(SelectHistory(txn.work.convo, txn.uid)) > Cap
    /\ lastCall.op = "get_history"
    /\ lastCall.uid = txn.uid
    /\ ~lastCall.raised
    /\ Len(lastCall.ret) = Cap

\* C4: once more than 2*HISTORY_TURNS turns have been appended for a user,
\* get_history returns exactly the 2*HISTORY_TURNS most recent of them, in
\* the order they were appended, oldest first.
NewestRetained ==
    (/\ lastCall.op = "get_history"
     /\ ~lastCall.raised
     /\ Len(log[lastCall.uid]) > Cap)
    => LET l == log[lastCall.uid] IN
       /\ Len(lastCall.ret) = Cap
       /\ lastCall.ret = SubSeq(l, Len(l) - Cap + 1, Len(l))

\* C4 witness: a read after more appends than the cap, with another user's
\* rows in the table
ReadAfterOverflow ==
    /\ lastCall.op = "get_history"
    /\ ~lastCall.raised
    /\ Len(log[lastCall.uid]) > Cap
    /\ \E u \in Users : u # lastCall.uid /\ Len(log[u]) > 0

\* --------------------------------------------------------------- SpecEquiv
\* The same sequence of storage calls applied to a process in Durable mode
\* (its database in fileDb) and to a process in Ephemeral mode (its database
\* in memDb); eq holds what the last call returned in each.

EquivApply(op) ==
    LET rd == DbTry(op, NoFault, FALSE, fileDb, EmptyDb)
        re == DbTry(op, NoFault, TRUE, EmptyDb, memDb) IN
    /\ fileDb' = rd.fdb
    /\ memDb' = re.mdb
    /\ eq' = [op |-> op.name, durable |-> rd.ret, ephemeral |-> re.ret,
              dOk |-> ~rd.raised, eOk |-> ~re.raised]
    /\ UNCHANGED <<DB_URI, today, txn, lastCall, log, pre, callers, sess, solo>>
    /\ UNCHANGED loopVars

EquivInitDb ==
    \E op \in {InitCall} : EquivApply(op)

EquivGetUser ==
    \E uid \in Users : fileDb.tables /\ EquivApply(GetUserCall(uid, today))

EquivInc ==
    \E uid \in Users :
        /\ fileDb.tables
        /\ IF fileDb.users[uid] = NoRow THEN TRUE
           ELSE fileDb.users[uid].messages_today < MaxCount
        /\ EquivApply(IncCall(uid))

EquivAddMsg ==
    \E uid \in Users, content \in Texts :
        /\ fileDb.tables
        /\ Len(fileDb.convo) < MaxRows
        /\ EquivApply(AddCall(uid, "user", content))

EquivGetHistory ==
    \E uid \in Users : fileDb.tables /\ EquivApply(HistCall(uid))

EquivClear ==
    \E uid \in Users : fileDb.tables /\ EquivApply(ResetCall(uid))

EquivNext ==
    \/ EquivInitDb
    \/ EquivGetUser
    \/ EquivInc
    \/ EquivAddMsg
    \/ EquivGetHistory
    \/ EquivClear

SpecEquiv == StoreInit /\ [][EquivNext]_vars

\* C8: every storage call returns the same in Ephemeral mode as in Durable
\* mode after the same sequence of calls from an initialised empty store:
\* both succeed or both raise, with equal results.
SameSemantics ==
    /\ eq.dOk = eq.eOk
    /\ eq.durable = eq.ephemeral

\* --------------------------------------------------------------- SpecFrame
\* The storage helpers called in any order on any date, each call remembering
\* the file database and the date it started from. Only init_db() may hit an
\* I/O error here; SpecStore has the errors of the other calls.

FrameCall(op, io) ==
    LET r == DbTry(op, io, DB_URI, fileDb, memDb) IN
    /\ Commit(op, io, r)
    /\ pre' = [db |-> fileDb, day |-> today, cleared |-> FALSE]
    /\ UNCHANGED <<today, txn, log, eq, callers, sess, solo>>
    /\ UNCHANGED loopVars

FrameTick ==
    /\ Tick
    /\ UNCHANGED <<DB_URI, fileDb, memDb, txn, lastCall, log, eq, pre, callers, sess, solo>>
    /\ UNCHANGED loopVars

\* init_db()
FrameInitDb ==
    \E io \in Faults :
        /\ ~txn.open
        /\ FrameCall(InitCall, io)

\* get_user(uid, username)
FrameGetUser ==
    \E uid \in Users :
        /\ InitDone
        /\ FrameCall(GetUserCall(uid, today), NoFault)

\* inc_user_counter(uid)
FrameInc ==
    \E uid \in Users :
        /\ InitDone
        /\ IF fileDb.users[uid] = NoRow THEN TRUE
           ELSE fileDb.users[uid].messages_today < MaxCount
        /\ FrameCall(IncCall(uid), NoFault)

\* add_msg(uid, "user", content)
FrameAddMsg ==
    \E uid \in Users :
        /\ InitDone
        /\ Len(fileDb.convo) < MaxRows
        /\ FrameCall(AddCall(uid, "user", <<"a">>), NoFault)

\* get_history(uid)
FrameGetHistory ==
    \E uid \in Users :
        /\ InitDone
        /\ FrameCall(HistCall(uid), NoFault)

\* _db_try(_do_reset) and, when it returns, get_history(uid) straight after
\* it (run_tests, test 4)
FrameClearThenRead ==
    \E uid \in Users :
        LET r1 == DbTry(ResetCall(uid), NoFault, DB_URI, fileDb, memDb)
            r2 == DbTry(HistCall(uid), NoFault, r1.uri, r1.fdb, r1.mdb) IN
        /\ InitDone
        /\ IF r1.raised
           THEN /\ Commit(ResetCall(uid), NoFault, r1)
                /\ pre' = [db |-> fileDb, day |-> today, cleared |-> FALSE]
           ELSE /\ Commit(HistCall(uid), NoFault, r2)
                /\ pre' = [db |-> fileDb, day |-> today, cleared |-> TRUE]
        /\ UNCHANGED <<today, txn, log, eq, callers, sess, solo>>
        /\ UNCHANGED loopVars

FrameNext ==
    \/ FrameTick
    \/ FrameInitDb
    \/ FrameGetUser
    \/ FrameInc
    \/ FrameAddMsg
    \/ FrameGetHistory
    \/ FrameClearThenRead

SpecFrame == StoreInit /\ [][FrameNext]_vars

\* ---------------------------------------------------------------- SpecConc
\* Two get_user calls for the same user id running at the same time (two
\* threads or two processes on the same file), each through its own
\* connection, taken statement by statement: the SELECT with fetchone(), then
\* the INSERT or UPDATE with its commit. The file is in Durable mode and no
\* I/O error occurs.

\* the user id both callers pass
ConcUser == 1

\* init_db()
ConcInitDb ==
    \E op \in {InitCall} :
        /\ ~fileDb.tables
        /\ Commit(op, NoFault, DbTry(op, NoFault, DB_URI, fileDb, memDb))
        /\ UNCHANGED <<today, txn, log, eq, pre, callers, sess, solo>>
        /\ UNCHANGED loopVars

ConcTick ==
    /\ Tick
    /\ UNCHANGED <<DB_URI, fileDb, memDb, txn, lastCall, log, eq, pre, callers, sess, solo>>
    /\ UNCHANGED loopVars

\* get_user._get: con = db(); the SELECT; row = cur.fetchone()
ConcSelect ==
    \E c \in {1, 2} :
        /\ fileDb.tables
        /\ callers[c].pc = "start"
        /\ callers' = [callers EXCEPT ![c] = [pc |-> "selected",
                                              row |-> fileDb.users[ConcUser],
                                              ret |-> <<>>]]
        /\ UNCHANGED <<DB_URI, today, fileDb, memDb, txn, lastCall, log, eq, pre, sess, solo>>
        /\ UNCHANGED loopVars

\* get_user._get: the branch taken on the row read; the INSERT of a user_id
\* that is in the table by now violates the PRIMARY KEY and raises
\* sqlite3.IntegrityError, which _db_try does not catch
ConcWrite ==
    \E c \in {1, 2} :
        LET row == callers[c].row
            fresh == [messages_today |-> 0, last_reset |-> today] IN
        /\ callers[c].pc = "selected"
        /\ IF row = NoRow
           THEN IF fileDb.users[ConcUser] # NoRow
                THEN /\ callers' = [callers EXCEPT ![c].pc = "raised"]
                     /\ UNCHANGED fileDb
                ELSE /\ fileDb' = [fileDb EXCEPT !.users[ConcUser] = fresh]
                     /\ callers' = [callers EXCEPT ![c].pc = "returned",
                                                   ![c].ret = <<ConcUser, 0, today>>]
           ELSE IF row.last_reset # today
                THEN /\ fileDb' = [fileDb EXCEPT !.users[ConcUser] = fresh]
                     /\ callers' = [callers EXCEPT ![c].pc = "returned",
                                                   ![c].ret = <<ConcUser, 0, today>>]
                ELSE /\ callers' = [callers EXCEPT
                                       ![c].pc = "returned",
                                       ![c].ret = <<ConcUser, row.messages_today,
                                                    row.last_reset>>]
                     /\ UNCHANGED fileDb
        /\ UNCHANGED <<DB_URI, today, memDb, txn, lastCall, log, eq, pre, sess, solo>>
        /\ UNCHANGED loopVars

\* the caller has its result or its exception; it may call again
ConcFinish ==
    \E c \in {1, 2} :
        /\ callers[c].pc \in {"returned", "raised"}
        /\ callers' = [callers EXCEPT ![c] = NoCaller]
        /\ UNCHANGED <<DB_URI, today, fileDb, memDb, txn, lastCall, log, eq, pre, sess, solo>>
        /\ UNCHANGED loopVars

\* inc_user_counter(uid) by a caller between two of its get_user calls
ConcInc ==
    \E c \in {1, 2} :
        /\ callers[c].pc = "start"
        /\ fileDb.tables
        /\ fileDb.users[ConcUser] # NoRow
        /\ fileDb.users[ConcUser].messages_today < MaxCount
        /\ fileDb' = IncOp(fileDb, ConcUser).db
        /\ UNCHANGED <<DB_URI, today, memDb, txn, lastCall, log, eq, pre, callers, sess, solo>>
        /\ UNCHANGED loopVars

ConcNext ==
    \/ ConcInitDb
    \/ ConcTick
    \/ ConcSelect
    \/ ConcWrite
    \/ ConcFinish
    \/ ConcInc

SpecConc == StoreInit /\ [][ConcNext]_vars

\* -------------------------------------------------------------------- Spec
\* The bot: startup, then the session loop of the chosen transport, one
\* storage call or provider call per step. The date may change between any
\* two steps, and every storage call may hit an I/O error.

SYSTEM_PROMPT == <<"system-prompt">>

\* the username the transport reports for a user (Telegram users may have none)
Username(uid) == IF uid = 1 THEN <<"local_user">> ELSE <<>>

RECURSIVE HistoryMessages(_)
HistoryMessages(history) ==
    IF history = <<>> THEN <<>>
    ELSE Append(HistoryMessages(SubSeq(history, 1, Len(history) - 1)),
                [role |-> history[Len(history)][1], content |-> history[Len(history)][2]])

\* the message list with the new user message ahead of the history
MessagesUserFirst(history, user_text, username) ==
    <<[role |-> "system", content |-> SYSTEM_PROMPT]>>
    \o (IF username # <<>>
        THEN <<[role |-> "system", content |-> <<"username-is">> \o username]>>
        ELSE <<>>)
    \o <<[role |-> "user", content |-> user_text]>>
    \o HistoryMessages(history)

\* generate_reply: the message list handed to _openai_reply
Messages(history, user_text, username) ==
    <<[role |-> "system", content |-> SYSTEM_PROMPT]>>
    \o (IF username # <<>>
        THEN <<[role |-> "system", content |-> <<"username-is">> \o username]>>
        ELSE <<>>)
    \o HistoryMessages(history)
    \o <<[role |-> "user", content |-> user_text]>>

\* next(m["content"] for m in reversed(messages) if m["role"] == "user"), ""
LastUserContent(messages) ==
    LET idx == {i \in 1..Len(messages) : messages[i].role = "user"} IN
    IF idx = {} THEN <<>>
    ELSE messages[CHOOSE i \in idx : \A j \in idx : j <= i].content

\* the stub without the echoed message
StubNoEcho(messages) == <<"you-wrote">>

\* _openai_reply without a client: the stub that echoes the last user message
StubReply(messages) == <<"you-wrote">> \o LastUserContent(messages)

\* _openai_reply: the fixed text returned when the client call raises
GLITCH_REPLY == <<"glitch-try-again">>

\* what a successful completion may contain
Completions == {<<"ai">>}

\* _openai_reply; outcome is "unavailable", "ok" or "error"
OpenaiReply(messages, outcome, completion) ==
    IF outcome = "unavailable" THEN StubReply(messages)
    ELSE IF outcome = "ok" THEN completion
    ELSE GLITCH_REPLY

\* the outcomes _openai_reply can have under the process configuration
Outcomes(prov) == IF prov = "unavailable" THEN {"unavailable"} ELSE {"ok", "error"}

\* the quota check with > for >=
QuotaOffByOne(n) == n > FREE_MESSAGES_PER_DAY

\* "if used >= FREE_MESSAGES_PER_DAY"
QuotaExhausted(n) == n >= FREE_MESSAGES_PER_DAY

\* "x in reply": text x occurs in text s
Contains(s, x) ==
    \E i \in 1..(Len(s) - Len(x) + 1) : SubSeq(s, i, i + Len(x) - 1) = x

Init ==
    /\ DB_URI = FALSE
    /\ today = 0
    /\ fileDb = EmptyDb
    /\ memDb = EmptyDb
    /\ txn = NoTxn
    /\ lastCall = NoCall
    /\ log = [u \in Users |-> <<>>]
    /\ eq = NoEq
    /\ pre = NoPre
    /\ callers = [c \in {1, 2} |-> NoCaller]
    /\ sess = [u \in Users |-> NoSess]
    /\ solo = [u \in Users |-> EmptyDb]
    /\ msgList = <<>>
    /\ steps = <<>>
    /\ transport \in {"local", "telegram"}
    /\ provider \in {"unavailable", "configured"}
    /\ pc = "boot"
    /\ cur = NoEvent
    /\ used = 0
    /\ reply = <<>>
    /\ out = "none"
    /\ served = [u \in Users |-> [d \in Days |-> 0]]
    /\ cycles = [u \in Users |-> 0]
    /\ userAdds = 0
    /\ events = 0

\* the users whose events the transport delivers
Senders == IF transport = "local" THEN {1} ELSE Users

\* the text messages the loop receives
LoopTexts == {<<"a">>}

\* where an exception leaves the handler: _tg_text catches it and apologises,
\* run_local_session has no handler and the exception ends it
Fail ==
    IF transport = "telegram"
    THEN /\ pc' = "done"
         /\ out' = "apology"
    ELSE /\ pc' = "crashed"
         /\ out' = out

\* the statements of an allowed iteration in the reverse order for the last
\* three: the counter first, the assistant turn last
AfterStepSwapped(step) ==
    CASE step = "add_user" -> "generate"
      [] step = "generate" -> "inc"
      [] step = "inc" -> "add_asst"
      [] step = "add_asst" -> "done"

\* the statement that follows a statement of an allowed iteration:
\* add_msg(user), generate_reply, add_msg(assistant), inc_user_counter and
\* the print / reply_text, after which the handler returns
AfterStep(step) ==
    CASE step = "add_user" -> "generate"
      [] step = "generate" -> "add_asst"
      [] step = "add_asst" -> "inc"
      [] step = "inc" -> "done"

\* a _db_try call made by the loop
LoopCall(op, io, r) ==
    /\ DB_URI' = r.uri
    /\ fileDb' = r.fdb
    /\ memDb' = r.mdb
    /\ lastCall' = [Call(op, io, r) EXCEPT !.ret = <<>>, !.faults = NoFault, !.uid = 0]

\* date.today() changes during the run
DayChange ==
    /\ Tick
    /\ pc \notin {"boot", "stopped", "crashed", "crashed_boot"}
    /\ cycles' = [u \in Users |-> 0]
    /\ UNCHANGED <<DB_URI, fileDb, memDb, txn, lastCall, log, eq, pre, callers, sess, solo>>
    /\ UNCHANGED <<msgList, steps, transport, provider, pc, cur, used, reply, out, served, userAdds, events>>

\* run_local_session / run_telegram_bot: init_db()
Startup ==
    \E io \in Faults :
        LET op == InitCall
            r == DbTry(op, io, DB_URI, fileDb, memDb) IN
        /\ pc = "boot"
        /\ LoopCall(op, io, r)
        /\ pc' = IF r.raised THEN "crashed_boot"
                 ELSE IF transport = "local" THEN "boot_user" ELSE "idle"
        /\ UNCHANGED <<today, txn, log, eq, pre, callers, sess, solo>>
        /\ UNCHANGED <<msgList, steps, transport, provider, cur, used, reply, out, served, cycles,
                       userAdds, events>>

\* run_local_session: get_user(fake_user_id, fake_username) before the loop
StartupUser ==
    \E io \in Faults :
        LET op == GetUserCall(1, today)
            r == DbTry(op, io, DB_URI, fileDb, memDb) IN
        /\ pc = "boot_user"
        /\ LoopCall(op, io, r)
        /\ pc' = IF r.raised THEN "crashed_boot" ELSE "idle"
        /\ UNCHANGED <<today, txn, log, eq, pre, callers, sess, solo>>
        /\ UNCHANGED <<msgList, steps, transport, provider, cur, used, reply, out, served, cycles,
                       userAdds, events>>

\* the loop takes the next input: a text message
ReceiveText ==
    \E uid \in Senders, text \in LoopTexts :
        /\ pc = "idle"
        /\ events < MaxEvents
        /\ events' = events + 1
        /\ pc' = "ensure"
        /\ cur' = [uid |-> uid, text |-> text, checkDay |-> today, outcome |-> "none"]
        /\ UNCHANGED storeVars
        /\ UNCHANGED <<msgList, steps, transport, provider, used, reply, out, served, cycles, userAdds>>

\* a text no handler of either transport knows as a command
UNKNOWN_COMMAND == <<"/foo">>

\* filters.COMMAND: the message starts with a bot command
IsCommand(text) ==
    /\ Len(text) > 0
    /\ text[1] \in {"/start", "/help", "/reset", "/stats", "/foo"}

\* the text reaches the message handling: in run_local_session every line
\* that is not a quit word or "/reset", in Telegram the updates that pass
\* filters.TEXT & (~filters.COMMAND)
ReachesTextHandler(tr, text) ==
    IF tr = "telegram" THEN ~IsCommand(text)
    ELSE text \notin {<<"/quit">>, <<":q">>, <<"exit">>, <<"/reset">>}

\* the loop takes the next input: a command none of its handlers is
\* registered for; an update that matches no handler is dropped
UnknownCommand ==
    \E uid \in Senders :
        /\ pc = "idle"
        /\ events < MaxEvents
        /\ events' = events + 1
        /\ cur' = [uid |-> uid, text |-> UNKNOWN_COMMAND, checkDay |-> today,
                   outcome |-> "none"]
        /\ IF ReachesTextHandler(transport, UNKNOWN_COMMAND)
           THEN pc' = "ensure" /\ out' = out
           ELSE pc' = "done" /\ out' = "none"
        /\ UNCHANGED storeVars
        /\ UNCHANGED <<msgList, steps, transport, provider, used, reply, served, cycles, userAdds>>

\* run_local_session: "/quit", ":q" or "exit"
Quit ==
    /\ pc = "idle"
    /\ transport = "local"
    /\ pc' = "stopped"
    /\ UNCHANGED storeVars
    /\ UNCHANGED <<msgList, steps, transport, provider, cur, used, reply, out, served, cycles,
                   userAdds, events>>

\* "/reset": run_local_session's branch, _tg_reset
Reset ==
    \E uid \in Senders, io \in Faults :
        LET op == ResetCall(uid)
            r == DbTry(op, io, DB_URI, fileDb, memDb) IN
        /\ pc = "idle"
        /\ events < MaxEvents
        /\ events' = events + 1
        /\ LoopCall(op, io, r)
        /\ cur' = [uid |-> uid, text |-> <<"/reset">>, checkDay |-> today, outcome |-> "none"]
        /\ IF ~r.raised THEN pc' = "done" /\ out' = "ack"
           ELSE IF transport = "telegram" THEN pc' = "done" /\ out' = "reset_apology"
           ELSE pc' = "crashed" /\ out' = "none"
        /\ UNCHANGED <<today, txn, log, eq, pre, callers, sess, solo>>
        /\ UNCHANGED <<msgList, steps, transport, provider, used, reply, served, cycles, userAdds>>

\* _tg_stats
Stats ==
    \E uid \in Senders, io \in Faults :
        LET op == GetUserCall(uid, today)
            r == DbTry(op, io, DB_URI, fileDb, memDb) IN
        /\ pc = "idle"
        /\ transport = "telegram"
        /\ events < MaxEvents
        /\ events' = events + 1
        /\ LoopCall(op, io, r)
        /\ cur' = [uid |-> uid, text |-> <<"/stats">>, checkDay |-> today, outcome |-> "none"]
        /\ used' = IF r.raised THEN 0 ELSE r.ret[2]
        /\ out' = IF r.raised THEN "none" ELSE "stats"
        /\ pc' = "done"
        /\ UNCHANGED <<today, txn, log, eq, pre, callers, sess, solo>>
        /\ UNCHANGED <<msgList, steps, transport, provider, reply, served, cycles, userAdds>>

\* _tg_start
Start ==
    \E uid \in Senders, io \in Faults :
        LET op == GetUserCall(uid, today)
            r == DbTry(op, io, DB_URI, fileDb, memDb) IN
        /\ pc = "idle"
        /\ transport = "telegram"
        /\ events < MaxEvents
        /\ events' = events + 1
        /\ LoopCall(op, io, r)
        /\ cur' = [uid |-> uid, text |-> <<"/start">>, checkDay |-> today, outcome |-> "none"]
        /\ out' = IF r.raised THEN "none" ELSE "welcome"
        /\ pc' = "done"
        /\ UNCHANGED <<today, txn, log, eq, pre, callers, sess, solo>>
        /\ UNCHANGED <<msgList, steps, transport, provider, used, reply, served, cycles, userAdds>>

\* get_user(...) and the quota check; a blocked message gets the paywall text
EnsureUser ==
    \E io \in Faults :
        LET op == GetUserCall(cur.uid, today)
            r == DbTry(op, io, DB_URI, fileDb, memDb) IN
        /\ pc = "ensure"
        /\ LoopCall(op, io, r)
        /\ IF r.raised
           THEN Fail /\ UNCHANGED <<used, cur>>
           ELSE /\ used' = r.ret[2]
                /\ cur' = [cur EXCEPT !.checkDay = today]
                /\ IF QuotaExhausted(r.ret[2])
                   THEN pc' = "done" /\ out' = "paywall"
                   ELSE pc' = "add_user" /\ out' = out
        /\ UNCHANGED <<today, txn, log, eq, pre, callers, sess, solo>>
        /\ UNCHANGED <<msgList, steps, transport, provider, reply, served, cycles, userAdds, events>>

\* add_msg(uid, "user", user_text)
AddUserTurn ==
    \E io \in Faults :
        LET op == AddCall(cur.uid, "user", cur.text)
            r == DbTry(op, io, DB_URI, fileDb, memDb) IN
        /\ pc = "add_user"
        /\ LoopCall(op, io, r)
        /\ IF r.raised
           THEN Fail /\ UNCHANGED <<userAdds, steps>>
           ELSE /\ pc' = AfterStep("add_user")
                /\ out' = out
                /\ userAdds' = userAdds + 1
                /\ steps' = Append(steps, "add_user")
        /\ UNCHANGED <<today, txn, log, eq, pre, callers, sess, solo>>
        /\ UNCHANGED <<msgList, transport, provider, cur, used, reply, served, cycles, events>>

\* reply = generate_reply(uid, user_text, username)
GenerateReply ==
    \E io \in Faults, outcome \in Outcomes(provider), completion \in Completions :
        LET op == HistCall(cur.uid)
            r == DbTry(op, io, DB_URI, fileDb, memDb) IN
        /\ pc = "generate"
        /\ LoopCall(op, io, r)
        /\ IF r.raised
           THEN Fail /\ UNCHANGED <<reply, cur, served, msgList, steps>>
           ELSE /\ msgList' = Messages(r.ret, cur.text, Username(cur.uid))
                /\ reply' = OpenaiReply(Messages(r.ret, cur.text, Username(cur.uid)),
                                        outcome, completion)
                /\ cur' = [cur EXCEPT !.outcome = outcome]
                /\ served' = [served EXCEPT ![cur.uid][cur.checkDay] = @ + 1]
                /\ steps' = steps \o <<"generate">>
                             \o (IF outcome = "unavailable" THEN <<>> ELSE <<"provider">>)
                /\ pc' = AfterStep("generate")
                /\ out' = out
        /\ UNCHANGED <<today, txn, log, eq, pre, callers, sess, solo>>
        /\ UNCHANGED <<transport, provider, used, cycles, userAdds, events>>

\* add_msg(uid, "assistant", reply)
AddAssistantTurn ==
    \E io \in Faults :
        LET op == AddCall(cur.uid, "assistant", reply)
            r == DbTry(op, io, DB_URI, fileDb, memDb) IN
        /\ pc = "add_asst"
        /\ LoopCall(op, io, r)
        /\ IF r.raised
           THEN Fail /\ UNCHANGED steps
           ELSE /\ pc' = AfterStep("add_asst")
                /\ out' = out
                /\ steps' = Append(steps, "add_asst")
        /\ UNCHANGED <<today, txn, log, eq, pre, callers, sess, solo>>
        /\ UNCHANGED <<msgList, transport, provider, cur, used, reply, served, cycles,
                       userAdds, events>>

\* inc_user_counter(uid), then the reply is printed / sent
IncrementAndEmit ==
    \E io \in Faults :
        LET op == IncCall(cur.uid)
            r == DbTry(op, io, DB_URI, fileDb, memDb) IN
        /\ pc = "inc"
        /\ LoopCall(op, io, r)
        /\ IF r.raised
           THEN Fail /\ UNCHANGED <<cycles, steps>>
           ELSE /\ pc' = AfterStep("inc")
                /\ out' = "reply"
                /\ cycles' = IF cur.checkDay = today
                             THEN [cycles EXCEPT ![cur.uid] = @ + 1] ELSE cycles
                /\ steps' = steps \o <<"inc", "emit">>
        /\ UNCHANGED <<today, txn, log, eq, pre, callers, sess, solo>>
        /\ UNCHANGED <<msgList, transport, provider, cur, used, reply, served, userAdds, events>>

\* the handler has returned: the loop goes back for the next input, the
\* locals of the finished iteration are dead
NextInput ==
    /\ pc = "done"
    /\ pc' = "idle"
    /\ cur' = NoEvent
    /\ used' = 0
    /\ reply' = <<>>
    /\ out' = "none"
    /\ userAdds' = 0
    /\ lastCall' = NoCall
    /\ msgList' = <<>>
    /\ steps' = <<>>
    /\ UNCHANGED <<DB_URI, today, fileDb, memDb, txn, log, eq, pre, callers, sess, solo>>
    /\ UNCHANGED <<transport, provider, served, cycles, events>>

Next ==
    \/ DayChange
    \/ Startup
    \/ StartupUser
    \/ ReceiveText
    \/ UnknownCommand
    \/ Quit
    \/ Reset
    \/ Stats
    \/ Start
    \/ EnsureUser
    \/ AddUserTurn
    \/ GenerateReply
    \/ AddAssistantTurn
    \/ IncrementAndEmit
    \/ NextInput

Spec == Init /\ [][Next]_vars

\* ---------------------------------------------------------------- SpecSess
\* One message handler per user (_tg_text, or /reset), the handlers of
\* different users interleaved between their storage calls; every storage
\* call is one connection with one commit. Each call is also applied to
\* solo[u], the database that receives the calls of user u only. No I/O
\* error occurs.

\* the text user u sends
SessText(u) == IF u = 1 THEN <<"a">> ELSE <<"b">>

\* events taken so far, over all users
SessEvents == sess[1].events + sess[2].events

\* a storage call of the handler of user u
SessCall(u, op) ==
    /\ Commit(op, NoFault, DbTry(op, NoFault, DB_URI, fileDb, memDb))
    /\ solo' = [solo EXCEPT ![u] = DbTry(op, NoFault, FALSE, solo[u], EmptyDb).fdb]

\* init_db()
SessInitDb ==
    \E op \in {InitCall} :
        /\ ~fileDb.tables
        /\ Commit(op, NoFault, DbTry(op, NoFault, DB_URI, fileDb, memDb))
        /\ solo' = [u \in Users |-> DbTry(op, NoFault, FALSE, solo[u], EmptyDb).fdb]
        /\ UNCHANGED <<today, txn, log, eq, pre, callers, sess>>
        /\ UNCHANGED loopVars

SessTick ==
    /\ Tick
    /\ UNCHANGED <<DB_URI, fileDb, memDb, txn, lastCall, log, eq, pre, callers, sess, solo>>
    /\ UNCHANGED loopVars

\* a text message of user u arrives: _tg_text starts
SessReceive ==
    \E u \in Users :
        /\ fileDb.tables
        /\ sess[u].pc = "idle"
        /\ SessEvents < MaxEvents
        /\ sess' = [sess EXCEPT ![u] = [pc |-> "ensure", used |-> 0, reply |-> <<>>,
                                        events |-> @.events + 1]]
        /\ UNCHANGED <<DB_URI, today, fileDb, memDb, txn, lastCall, log, eq, pre, callers, solo>>
        /\ UNCHANGED loopVars

\* /reset of user u: _db_try(_do_reset)
SessReset ==
    \E u \in Users :
        /\ fileDb.tables
        /\ sess[u].pc = "idle"
        /\ SessEvents < MaxEvents
        /\ SessCall(u, ResetCall(u))
        /\ sess' = [sess EXCEPT ![u].events = @ + 1]
        /\ UNCHANGED <<today, txn, log, eq, pre, callers>>
        /\ UNCHANGED loopVars

\* get_user(...) and the quota check
SessEnsure ==
    \E u \in Users :
        LET op == GetUserCall(u, today)
            r == DbTry(op, NoFault, DB_URI, fileDb, memDb) IN
        /\ sess[u].pc = "ensure"
        /\ SessCall(u, op)
        /\ sess' = [sess EXCEPT ![u].used = r.ret[2],
                                ![u].pc = IF QuotaExhausted(r.ret[2]) THEN "idle"
                                          ELSE "add_user"]
        /\ UNCHANGED <<today, txn, log, eq, pre, callers>>
        /\ UNCHANGED loopVars

\* add_msg(uid, "user", user_text)
SessAddUser ==
    \E u \in Users :
        /\ sess[u].pc = "add_user"
        /\ SessCall(u, AddCall(u, "user", SessText(u)))
        /\ sess' = [sess EXCEPT ![u].pc = AfterStep("add_user")]
        /\ UNCHANGED <<today, txn, log, eq, pre, callers>>
        /\ UNCHANGED loopVars

\* reply = generate_reply(uid, user_text, username)
SessGenerate ==
    \E u \in Users, outcome \in Outcomes(provider), completion \in Completions :
        LET op == HistCall(u)
            r == DbTry(op, NoFault, DB_URI, fileDb, memDb) IN
        /\ sess[u].pc = "generate"
        /\ SessCall(u, op)
        /\ sess' = [sess EXCEPT
                       ![u].reply = OpenaiReply(Messages(r.ret, SessText(u), Username(u)),
                                                outcome, completion),
                       ![u].pc = AfterStep("generate")]
        /\ UNCHANGED <<today, txn, log, eq, pre, callers>>
        /\ UNCHANGED loopVars

\* add_msg(uid, "assistant", reply)
SessAddAsst ==
    \E u \in Users :
        /\ sess[u].pc = "add_asst"
        /\ SessCall(u, AddCall(u, "assistant", sess[u].reply))
        /\ sess' = [sess EXCEPT ![u].pc = AfterStep("add_asst")]
        /\ UNCHANGED <<today, txn, log, eq, pre, callers>>
        /\ UNCHANGED loopVars

\* inc_user_counter(uid), then the reply is sent and the handler returns
SessInc ==
    \E u \in Users :
        /\ sess[u].pc = "inc"
        /\ SessCall(u, IncCall(u))
        /\ sess' = [sess EXCEPT ![u].pc = "idle", ![u].used = 0, ![u].reply = <<>>]
        /\ UNCHANGED <<today, txn, log, eq, pre, callers>>
        /\ UNCHANGED loopVars

SessNext ==
    \/ SessInitDb
    \/ SessTick
    \/ SessReceive
    \/ SessReset
    \/ SessEnsure
    \/ SessAddUser
    \/ SessGenerate
    \/ SessAddAsst
    \/ SessInc

SpecSess == StoreInit /\ [][SessNext]_vars

StorageOps == {"get_user", "inc_user_counter", "add_msg", "get_history", "clear_history"}

\* C5: when the first invocation of a storage operation hits an I/O-class
\* error while the backend is Durable, and nothing is injected into the retry,
\* the backend is switched to Ephemeral, the operation is invoked exactly once
\* more, on the Ephemeral backend, and that retry succeeds (the call returns
\* instead of raising).
FallbackRetrySucceeds ==
    (/\ lastCall.op \in StorageOps
     /\ lastCall.failed1
     /\ ~lastCall.before
     /\ ~lastCall.faults[2])
    => (/\ DB_URI
        /\ lastCall.attempts = 2
        /\ lastCall.backends = <<FALSE, TRUE>>
        /\ ~lastCall.raised)

\* C6: when the first invocation of a storage operation hits an I/O-class
\* error while the backend is already Ephemeral, the call raises to its
\* caller after that single invocation, and the mode stays Ephemeral.
EphemeralErrorPropagates ==
    (lastCall.op # "none" /\ lastCall.failed1 /\ lastCall.before)
    => (/\ lastCall.raised
        /\ lastCall.attempts = 1
        /\ lastCall.backends = <<TRUE>>
        /\ DB_URI)

\* C6 witness: a storage operation has failed in Ephemeral mode
EphemeralErrorSeen ==
    /\ lastCall.op \in StorageOps
    /\ lastCall.failed1
    /\ lastCall.before
    /\ lastCall.raised

\* the database the process is connected to
CurrentDb == IF DB_URI THEN memDb ELSE fileDb

\* C1: when a user has completed FREE_MESSAGES_PER_DAY message+reply cycles
\* today, the quota check of that user's next message of the day finds
\* used >= FREE_MESSAGES_PER_DAY and the message gets the paywall text; the
\* handling of that message changes no user row and no turn.
QuotaBlocksAfterLimit ==
    [][(/\ pc = "ensure"
        /\ pc' # "ensure"
        /\ cycles[cur.uid] = FREE_MESSAGES_PER_DAY)
       => (/\ fileDb'.users = fileDb.users
           /\ fileDb'.convo = fileDb.convo
           /\ memDb' = memDb
           /\ ~lastCall'.raised =>
                (/\ used' >= FREE_MESSAGES_PER_DAY
                 /\ out' = "paywall"
                 /\ pc' = "done"))]_vars

\* C1 witness: a message was blocked after the user's FREE_MESSAGES_PER_DAY
\* cycles of the day
BlockedAtLimit ==
    /\ pc = "done"
    /\ out = "paywall"
    /\ cycles[cur.uid] = FREE_MESSAGES_PER_DAY
    /\ used = FREE_MESSAGES_PER_DAY

\* C2: for every user and day, the messages that passed the quota check on
\* that day and got a generated reply number at most FREE_MESSAGES_PER_DAY.
ServedWithinQuota ==
    \A u \in Users, d \in Days : served[u][d] <= FREE_MESSAGES_PER_DAY

\* C2 witness: a user reached the quota on a day and the backend fell back
\* to Ephemeral afterwards
QuotaReachedThenFallback ==
    \E u \in Users :
        /\ served[u][today] = FREE_MESSAGES_PER_DAY
        /\ DB_URI
        /\ pc = "done"

\* C7: the mode never goes back from Ephemeral to Durable, and a storage call
\* started in Ephemeral mode connects only to the Ephemeral backend.
ModeOneWay ==
    /\ [][DB_URI => DB_URI']_vars
    /\ [](lastCall.before =>
            (DB_URI /\ \A i \in DOMAIN lastCall.backends : lastCall.backends[i]))

\* C7 witness: a storage call of a message handler started after the switch
CallAfterSwitch ==
    /\ DB_URI
    /\ lastCall.before
    /\ lastCall.op \in StorageOps
    /\ pc = "done"

\* the iteration ended with the reply sent, and the last two turns of the
\* user's history are the user's message and the reply
TurnRecorded ==
    LET h == SelectHistory(CurrentDb.convo, cur.uid) IN
    /\ userAdds = 1
    /\ Len(h) >= 2
    /\ h[Len(h) - 1] = <<"user", cur.text>>
    /\ h[Len(h)] = <<"assistant", reply>>

\* C9 as stated: when the provider call fails or no provider is available,
\* generate_reply returns a non-empty text containing the user's text, and
\* after the iteration the user's turn is in the history exactly once.
ProviderFailureEchoes ==
    cur.outcome \in {"error", "unavailable"}
    => (/\ Len(reply) > 0
        /\ Contains(reply, cur.text)
        /\ (pc = "done" /\ out = "reply") => TurnRecorded)

\* C9 amended: without a provider generate_reply returns a non-empty text
\* containing the user's text; when the provider call raises it returns the
\* fixed non-empty apology; in both cases, after an iteration that ran to its
\* end, the user's turn is in the history exactly once.
ProviderFailureReply ==
    cur.outcome \in {"error", "unavailable"}
    => (/\ Len(reply) > 0
        /\ cur.outcome = "unavailable" => Contains(reply, cur.text)
        /\ cur.outcome = "error" => reply = GLITCH_REPLY
        /\ (pc = "done" /\ out = "reply") => TurnRecorded)

\* C9 witness: an iteration ran to its end although the provider call raised
ProviderErrorServed ==
    /\ pc = "done"
    /\ out = "reply"
    /\ cur.outcome = "error"
    /\ reply = GLITCH_REPLY

\* C10: no exception raised while a message is handled ends the session
\* loop; only the quit command does.
LoopSurvivesExceptions == pc # "crashed"

\* C11: every event of the Telegram transport whose handling has failed (a
\* text message, /reset, /stats or /start whose storage call raised) has sent
\* the user exactly one apology when its handler returns.
FailedEventApologises ==
    (transport = "telegram" /\ pc = "done" /\ lastCall.raised)
    => out \in {"apology", "reset_apology"}

\* C12: a get_user call that returns has, for an absent user, inserted the
\* row with counter 0 and the date of the call and returned them; for a user
\* whose last_reset is not the date of the call, stored counter 0 and that
\* date and returned 0; for a user whose last_reset is the date of the call,
\* returned the stored counter and date and changed nothing. No other user's
\* row and no turn changes, and a call that meets no I/O error in Durable
\* mode returns.
GetUserCases ==
    /\ (lastCall.op = "get_user" /\ ~lastCall.before /\ ~lastCall.faults[1])
       => ~lastCall.raised
    /\ (lastCall.op = "get_user" /\ ~lastCall.raised)
       => LET u == lastCall.uid
              old == pre.db.users[u]
              fresh == [messages_today |-> 0, last_reset |-> pre.day] IN
          /\ old = NoRow =>
                /\ fileDb = [pre.db EXCEPT !.users[u] = fresh]
                /\ lastCall.ret = <<u, 0, pre.day>>
          /\ (old # NoRow /\ old.last_reset # pre.day) =>
                /\ fileDb = [pre.db EXCEPT !.users[u] = fresh]
                /\ lastCall.ret = <<u, 0, pre.day>>
          /\ (old # NoRow /\ old.last_reset = pre.day) =>
                /\ fileDb = pre.db
                /\ lastCall.ret = <<u, old.messages_today, old.last_reset>>

\* C12 witness: get_user on a new day returned 0 for a user whose counter was
\* positive the day before
RolloverSeen ==
    /\ lastCall.op = "get_user"
    /\ ~lastCall.raised
    /\ pre.db.users[lastCall.uid] # NoRow
    /\ pre.db.users[lastCall.uid].messages_today > 0
    /\ pre.db.users[lastCall.uid].last_reset < pre.day
    /\ lastCall.ret[2] = 0

\* C13: after a call that read or wrote a user's counter (get_user, or an
\* inc_user_counter that found the row), the user's last_reset is the date
\* of that call.
LastResetIsLastAccess ==
    (/\ lastCall.op \in {"get_user", "inc_user_counter"}
     /\ ~lastCall.raised
     /\ fileDb.users[lastCall.uid] # NoRow)
    => fileDb.users[lastCall.uid].last_reset = pre.day

\* C14: a get_history(u) made straight after a clear_history(u) that
\* returned also returns, with the empty sequence; the two calls leave the
\* history of every other user and every user row as they were before the
\* clear_history.
ClearThenEmpty ==
    (lastCall.op = "get_history" /\ pre.cleared)
    => /\ ~lastCall.raised
       /\ lastCall.ret = <<>>
       /\ SelectHistory(fileDb.convo, lastCall.uid) = <<>>
       /\ \A v \in Users \ {lastCall.uid} :
             SelectHistory(fileDb.convo, v) = SelectHistory(pre.db.convo, v)
       /\ fileDb.users = pre.db.users

\* C14 witness: the history of the user was not empty before the clear, and
\* another user has turns too
ClearedNonEmpty ==
    /\ lastCall.op = "get_history"
    /\ pre.cleared
    /\ lastCall.ret = <<>>
    /\ SelectHistory(pre.db.convo, lastCall.uid) # <<>>
    /\ \E v \in Users \ {lastCall.uid} : SelectHistory(fileDb.convo, v) # <<>>

\* C15: the handling of a /reset makes one storage call, the clear_history,
\* with no get_user and no quota check before it; it changes no user row
\* (messages_today and last_reset stay), appends no turn and leaves the other
\* users' turns alone; when the call returns, the user is acknowledged and
\* the user's history is empty, whatever the user's counter is.
ResetOnlyHistory ==
    [][(pc = "idle" /\ cur'.text = <<"/reset">>)
       => (/\ lastCall'.op = "clear_history"
           /\ fileDb'.users = fileDb.users
           /\ memDb'.users = memDb.users
           /\ Len(fileDb'.convo) <= Len(fileDb.convo)
           /\ \A v \in Users \ {cur'.uid} :
                 SelectHistory(fileDb'.convo, v) = SelectHistory(fileDb.convo, v)
           /\ used' = used
           /\ served' = served
           /\ cycles' = cycles
           /\ ~lastCall'.raised =>
                (/\ out' = "ack"
                 /\ pc' = "done"
                 /\ SelectHistory(fileDb'.convo, cur'.uid) = <<>>))]_vars

\* C15 witness: a /reset was honoured for a user whose quota of the day is
\* exhausted and who had turns, and the counter is still at the limit
ResetAtQuota ==
    /\ pc = "done"
    /\ out = "ack"
    /\ cur.text = <<"/reset">>
    /\ ~DB_URI
    /\ fileDb.users[cur.uid] # NoRow
    /\ fileDb.users[cur.uid].messages_today = FREE_MESSAGES_PER_DAY
    /\ fileDb.users[cur.uid].last_reset = today
    /\ cycles[cur.uid] = FREE_MESSAGES_PER_DAY
    /\ SelectHistory(fileDb.convo, cur.uid) = <<>>

\* the steps of an allowed iteration that runs to its end
FullSteps(withProvider) ==
    <<"add_user", "generate">>
    \o (IF withProvider THEN <<"provider">> ELSE <<>>)
    \o <<"add_asst", "inc", "emit">>

IsPrefix(a, b) == Len(a) <= Len(b) /\ a = SubSeq(b, 1, Len(a))

\* C16: the steps an iteration has taken are always an initial part of:
\* record the user turn, generate the reply (calling the provider once when
\* one is configured, never otherwise), record the assistant turn, increment
\* the counter, emit the reply; an iteration that has emitted its reply has
\* taken each of them exactly once, and a blocked one has taken none.
StepsInOrder ==
    /\ IsPrefix(steps, FullSteps(provider = "configured"))
    /\ (pc = "done" /\ out = "reply") => steps = FullSteps(provider = "configured")
    /\ (pc = "done" /\ out = "paywall") => steps = <<>>

\* C16 witness: an iteration has emitted a reply that came from the provider
RepliedViaProvider ==
    /\ pc = "done"
    /\ out = "reply"
    /\ cur.outcome = "ok"
    /\ Len(steps) = 6

\* C17: when generate_reply has returned, the message list it built is the
\* persona system message, then the system note with the username if and
\* only if the user has one, then the stored turns of the user in the order
\* get_history returns them (oldest first), then the new user message.
MessageListComposition ==
    pc = "add_asst"
    => LET h == SelectHistory(CurrentDb.convo, cur.uid)
           n == IF Username(cur.uid) # <<>> THEN 1 ELSE 0 IN
       /\ Len(msgList) = 1 + n + Len(h) + 1
       /\ msgList[1] = [role |-> "system", content |-> SYSTEM_PROMPT]
       /\ n = 1 => msgList[2] = [role |-> "system",
                                  content |-> <<"username-is">> \o Username(cur.uid)]
       /\ \A i \in 1..Len(h) :
             msgList[1 + n + i] = [role |-> h[i][1], content |-> h[i][2]]
       /\ msgList[Len(msgList)] = [role |-> "user", content |-> cur.text]

\* C17 witness: a list built for a user with a username and a full history,
\* an assistant turn before a user turn
FullListBuilt ==
    /\ pc = "add_asst"
    /\ Username(cur.uid) # <<>>
    /\ Len(msgList) = 3 + HISTORY_TURNS * 2
    /\ msgList[3].role = "assistant"

\* C18: the message list built in an allowed iteration contains the message
\* the user has just sent exactly once.
UserMessageOnce ==
    pc = "add_asst"
    => Cardinality({i \in 1..Len(msgList) :
                      msgList[i] = [role |-> "user", content |-> cur.text]}) = 1

\* C19: generate_reply writes nothing: while the handler is at its
\* generate_reply call, whatever the provider does and whether or not the
\* call returns, the file database and the in-memory database keep every
\* user row and every turn.
ReplyWritesNothing ==
    [][pc = "generate" => (fileDb' = fileDb /\ memDb' = memDb)]_vars

\* C19 witness: generate_reply has returned after a provider error, for a
\* user with a positive counter and a full history
RepliedOnProviderError ==
    /\ pc = "add_asst"
    /\ cur.outcome = "error"
    /\ fileDb.users[cur.uid] # NoRow
    /\ fileDb.users[cur.uid].messages_today > 0
    /\ Len(SelectHistory(fileDb.convo, cur.uid)) = HISTORY_TURNS * 2

\* C20: an inc_user_counter call that meets no I/O error in Durable mode
\* returns; a call that returns has added 1 to messages_today of its user and
\* left last_reset, every other row and every turn alone, and when its user
\* has no row it has changed nothing at all.
IncOnlyCounter ==
    /\ (lastCall.op = "inc_user_counter" /\ ~lastCall.before /\ ~lastCall.faults[1])
       => ~lastCall.raised
    /\ (lastCall.op = "inc_user_counter" /\ ~lastCall.raised)
       => LET u == lastCall.uid
              old == pre.db.users[u] IN
          IF old = NoRow
          THEN fileDb = pre.db
          ELSE fileDb = [pre.db EXCEPT !.users[u] =
                            [messages_today |-> old.messages_today + 1,
                             last_reset |-> old.last_reset]]

\* C20 witness: an increment for an absent user returned, with another
\* user's row and turns in the database
AbsentIncrement ==
    /\ lastCall.op = "inc_user_counter"
    /\ ~lastCall.raised
    /\ pre.db.users[lastCall.uid] = NoRow
    /\ fileDb.users[lastCall.uid] = NoRow
    /\ \E v \in Users : fileDb.users[v] # NoRow
    /\ fileDb.convo # <<>>

\* C21: whatever the interleaving of the SELECT and the INSERT / UPDATE of
\* two concurrent get_user calls for the same user id, neither call raises.
ConcurrentGetUserSafe ==
    \A c \in {1, 2} : callers[c].pc # "raised"

\* C22: however the handlers of different users are interleaved between
\* their storage calls, every user's row (messages_today, last_reset) and
\* history in the shared database are what the user's own calls produce in a
\* database that receives no other user's calls.
NoCrossUserEffect ==
    \A u \in Users :
        /\ fileDb.users[u] = solo[u].users[u]
        /\ SelectHistory(fileDb.convo, u) = SelectHistory(solo[u].convo, u)

\* C22 witness: both handlers are between two of their storage calls, user 1
\* in a later iteration than the first (a trim has deleted rows), and the
\* rows of the two users alternate in the table
InterleavedSessions ==
    /\ sess[1].pc = "inc"
    /\ sess[2].pc = "add_asst"
    /\ fileDb.users[1].messages_today >= 1
    /\ \E i, j, k \in 1..Len(fileDb.convo) :
          /\ i < j
          /\ j < k
          /\ fileDb.convo[i].user_id = 1
          /\ fileDb.convo[j].user_id = 2
          /\ fileDb.convo[k].user_id = 1

\* C23: in both transports a text that starts with "/" and is no known
\* command is handled as a message: when its handling has ended, the user
\* has got the reply, the paywall text or an apology.
UnknownCommandFallsThrough ==
    (pc = "done" /\ cur.text = UNKNOWN_COMMAND)
    => out \in {"reply", "paywall", "apology"}
====
